---- MODULE Spec2Model ----
(***************************************************************************)
(* Model of compact_addr (src/src/lib.rs): the conversions between         *)
(* SocketAddrV4 / SocketAddrV6 and their compact byte arrays ([u8; 6] and  *)
(* [u8; 18]).                                                              *)
(*                                                                         *)
(* The library is a set of pure functions.  They are modelled as           *)
(* operators computed step by step as the code computes them (zeroed       *)
(* buffer, copy_from_slice of the octets, copy_from_slice of the port      *)
(* bytes).  The state machine is a caller: it holds the values it was      *)
(* given (inputs) and the log of the calls it has made (calls); each       *)
(* action is one call of one of the four trait methods on a value the      *)
(* caller holds, i.e. one of its inputs or the value returned by its       *)
(* previous call.                                                          *)
(*                                                                         *)
(* Arrays are 1-based sequences; Rust's half-open ranges lo..hi keep their *)
(* 0-based bounds as the parameters of Slice and copy_from_slice.          *)
(***************************************************************************)
EXTENDS Integers, Sequences, FiniteSets

VARIABLES
    inputs,   \* the values handed to the caller: a sequence of [ty, val]
    calls     \* the calls made so far: a sequence of [op, arg, panicked, ret]

vars == <<inputs, calls>>

----------------------------------------------------------------------------
(* Bounds of the model *)

\* Number of calls the caller makes in one run.
MaxCalls == 2

\* Number of byte values sampled in addition to 0, 1 and 255.
ExtraBytes == 1

----------------------------------------------------------------------------
(* Primitive types of the source *)

U8 == 0..255

U16 == 0..65535

\* TLC's integers are 32-bit signed: the u32 fields (flowinfo, scope_id) are
\* only ever stored and read back, never computed with.
U32 == 0..2147483647

\* [u8; n]
IsByteArray(b, n) == /\ Len(b) = n
                     /\ \A i \in 1..n : b[i] \in U8

\* [0; n]
Zeroed(n) == [i \in 1..n |-> 0]

\* &s[lo..hi]
Slice(s, lo, hi) == SubSeq(s, lo + 1, hi)

\* Indexing s[lo..hi] panics when the range is not inside the array.
SlicePanics(s, lo, hi) == lo > hi \/ hi > Len(s)

\* dst[lo..hi].copy_from_slice(src), given that it does not panic
copy_from_slice(dst, lo, hi, src) ==
    [i \in 1..Len(dst) |-> IF lo < i /\ i <= hi THEN src[i - lo] ELSE dst[i]]

\* dst[lo..hi].copy_from_slice(src) panics when the range is not inside dst
\* or the two slices have different lengths.
copy_from_slice_panics(dst, lo, hi, src) ==
    SlicePanics(dst, lo, hi) \/ Len(src) # hi - lo

\* u16::to_be_bytes
to_be_bytes(p) == <<p \div 256, p % 256>>

\* u16::from_be_bytes
from_be_bytes(b) == b[1] * 256 + b[2]

\* Ipv4Addr::from([u8; 4]) and Ipv6Addr::from([u8; 16])
IpAddr_from(o) == [octets |-> o]

\* Ipv4Addr::octets and Ipv6Addr::octets
IpAddr_octets(ip) == ip.octets

\* SocketAddrV4::new(ip, port)
SocketAddrV4_new(ip, port) == [ip |-> ip, port |-> port]

\* SocketAddrV6::new(ip, port, flowinfo, scope_id)
SocketAddrV6_new(ip, port, flowinfo, scope_id) ==
    [ip |-> ip, port |-> port, flowinfo |-> flowinfo, scope_id |-> scope_id]

IsSocketAddrV4(a) == /\ DOMAIN a = {"ip", "port"}
                     /\ DOMAIN a.ip = {"octets"}
                     /\ IsByteArray(a.ip.octets, 4)
                     /\ a.port \in U16

IsSocketAddrV6(a) == /\ DOMAIN a = {"ip", "port", "flowinfo", "scope_id"}
                     /\ DOMAIN a.ip = {"octets"}
                     /\ IsByteArray(a.ip.octets, 16)
                     /\ a.port \in U16
                     /\ a.flowinfo \in U32
                     /\ a.scope_id \in U32

----------------------------------------------------------------------------
(* impl CompactAddrV4Info for SocketAddrV4 *)

\* Faulty variant: the port is written with to_le_bytes.
V4_to_compact_address_le(self) ==
    LET a0 == Zeroed(6)
        a1 == copy_from_slice(a0, 0, 4, IpAddr_octets(self.ip))
        a2 == copy_from_slice(a1, 4, 6, <<self.port % 256, self.port \div 256>>)
    IN  a2

\* Faulty variant: the port is written to a[3..5], over the last octet.
V4_to_compact_address_overlap(self) ==
    LET a0 == Zeroed(6)
        a1 == copy_from_slice(a0, 0, 4, IpAddr_octets(self.ip))
        a2 == copy_from_slice(a1, 3, 5, to_be_bytes(self.port))
    IN  a2

V4_to_compact_address(self) ==
    LET a0 == Zeroed(6)
        a1 == copy_from_slice(a0, 0, 4, IpAddr_octets(self.ip))
        a2 == copy_from_slice(a1, 4, 6, to_be_bytes(self.port))
    IN  a2

V4_to_compact_address_panics(self) ==
    LET a0 == Zeroed(6)
    IN  \/ copy_from_slice_panics(a0, 0, 4, IpAddr_octets(self.ip))
        \/ copy_from_slice_panics(a0, 4, 6, to_be_bytes(self.port))

\* Faulty variant: the port is read with from_le_bytes.
V4_from_compact_address_le(bytes) ==
    LET ip1   == copy_from_slice(Zeroed(4), 0, 4, Slice(bytes, 0, 4))
        port1 == copy_from_slice(Zeroed(2), 0, 2, Slice(bytes, 4, 6))
    IN  SocketAddrV4_new(IpAddr_from(ip1), port1[2] * 256 + port1[1])

\* Faulty variant: the octets are read in reverse order.
V4_from_compact_address_rev(bytes) ==
    LET ip1   == copy_from_slice(Zeroed(4), 0, 4, Slice(bytes, 0, 4))
        port1 == copy_from_slice(Zeroed(2), 0, 2, Slice(bytes, 4, 6))
    IN  SocketAddrV4_new(IpAddr_from([i \in 1..4 |-> ip1[5 - i]]),
                         from_be_bytes(port1))

V4_from_compact_address(bytes) ==
    LET ip0   == Zeroed(4)
        ip1   == copy_from_slice(ip0, 0, 4, Slice(bytes, 0, 4))
        ip    == IpAddr_from(ip1)
        port0 == Zeroed(2)
        port1 == copy_from_slice(port0, 0, 2, Slice(bytes, 4, 6))
        port  == from_be_bytes(port1)
    IN  SocketAddrV4_new(ip, port)

V4_from_compact_address_panics(bytes) ==
    \/ SlicePanics(bytes, 0, 4)
    \/ copy_from_slice_panics(Zeroed(4), 0, 4, Slice(bytes, 0, 4))
    \/ SlicePanics(bytes, 4, 6)
    \/ copy_from_slice_panics(Zeroed(2), 0, 2, Slice(bytes, 4, 6))

----------------------------------------------------------------------------
(* impl CompactAddrV6Info for SocketAddrV6 *)

\* Faulty variant: the port is written with to_le_bytes.
V6_to_compact_address_le(self) ==
    LET a0 == Zeroed(18)
        a1 == copy_from_slice(a0, 0, 16, IpAddr_octets(self.ip))
        a2 == copy_from_slice(a1, 16, 18,
                              <<self.port % 256, self.port \div 256>>)
    IN  a2

V6_to_compact_address(self) ==
    LET a0 == Zeroed(18)
        a1 == copy_from_slice(a0, 0, 16, IpAddr_octets(self.ip))
        a2 == copy_from_slice(a1, 16, 18, to_be_bytes(self.port))
    IN  a2

V6_to_compact_address_panics(self) ==
    LET a0 == Zeroed(18)
    IN  \/ copy_from_slice_panics(a0, 0, 16, IpAddr_octets(self.ip))
        \/ copy_from_slice_panics(a0, 16, 18, to_be_bytes(self.port))

\* Faulty variant: the port is read from bytes[15..17].
V6_from_compact_address_off(bytes) ==
    LET ip1   == copy_from_slice(Zeroed(16), 0, 16, Slice(bytes, 0, 16))
        port1 == copy_from_slice(Zeroed(2), 0, 2, Slice(bytes, 15, 17))
    IN  SocketAddrV6_new(IpAddr_from(ip1), from_be_bytes(port1), 0, 0)

\* Faulty variant: the port is read with from_le_bytes.
V6_from_compact_address_le(bytes) ==
    LET ip1   == copy_from_slice(Zeroed(16), 0, 16, Slice(bytes, 0, 16))
        port1 == copy_from_slice(Zeroed(2), 0, 2, Slice(bytes, 16, 18))
    IN  SocketAddrV6_new(IpAddr_from(ip1), port1[2] * 256 + port1[1], 0, 0)

\* Faulty variant: the port is also passed as the scope_id.
V6_from_compact_address_scope(bytes) ==
    LET ip1   == copy_from_slice(Zeroed(16), 0, 16, Slice(bytes, 0, 16))
        port1 == copy_from_slice(Zeroed(2), 0, 2, Slice(bytes, 16, 18))
    IN  SocketAddrV6_new(IpAddr_from(ip1), from_be_bytes(port1),
                         0, from_be_bytes(port1))

\* Faulty variant: the port is read from the first two bytes and the octets after it.
V6_from_compact_address_port_first(bytes) ==
    LET ip1   == copy_from_slice(Zeroed(16), 0, 16, Slice(bytes, 2, 18))
        port1 == copy_from_slice(Zeroed(2), 0, 2, Slice(bytes, 0, 2))
    IN  SocketAddrV6_new(IpAddr_from(ip1), from_be_bytes(port1), 0, 0)

V6_from_compact_address(bytes) ==
    LET ip0   == Zeroed(16)
        ip1   == copy_from_slice(ip0, 0, 16, Slice(bytes, 0, 16))
        ip    == IpAddr_from(ip1)
        port0 == Zeroed(2)
        port1 == copy_from_slice(port0, 0, 2, Slice(bytes, 16, 18))
        port  == from_be_bytes(port1)
    IN  SocketAddrV6_new(ip, port, 0, 0)

V6_from_compact_address_panics(bytes) ==
    \/ SlicePanics(bytes, 0, 16)
    \/ copy_from_slice_panics(Zeroed(16), 0, 16, Slice(bytes, 0, 16))
    \/ SlicePanics(bytes, 16, 18)
    \/ copy_from_slice_panics(Zeroed(2), 0, 2, Slice(bytes, 16, 18))

----------------------------------------------------------------------------
(* The values the caller is given *)

ByteSamples == {0, 1, 255} \cup {(k * 43) % 256 : k \in 1..ExtraBytes}

\* 34000 = 0x84D0; 255, 256 and 65280 tell the high byte from the low one.
PortSamples == {0, 80, 255, 256, 34000, 65280, 65535}

FlowinfoSamples == {0, 1048575}

ScopeIdSamples == {0, 7}

\* n bytes, all w except v at (1-based) position i
OneHot(n, i, v, w) == [j \in 1..n |-> IF j = i THEN v ELSE w]

\* n bytes, all different: base, base + 1, ...
Ramp(n, base) == [j \in 1..n |-> (base + j - 1) % 256]

ByteArraySamples(n) ==
    {OneHot(n, i, v, w) : i \in 1..n, v \in ByteSamples, w \in ByteSamples}
        \cup {Ramp(n, base) : base \in ByteSamples}

SocketAddrV4Samples ==
    {SocketAddrV4_new(IpAddr_from(o), p) :
        o \in ByteArraySamples(4) \cup {<<192, 168, 1, 2>>}, p \in PortSamples}

SocketAddrV6Samples ==
    {SocketAddrV6_new(IpAddr_from(o), p, f, s) :
        o \in ByteArraySamples(16), p \in PortSamples,
        f \in FlowinfoSamples, s \in ScopeIdSamples}

CompactV4Samples == ByteArraySamples(6) \cup {<<192, 168, 1, 2, 132, 208>>}

CompactV6Samples == ByteArraySamples(18)

Given(ty, v) == [ty |-> ty, val |-> v]

----------------------------------------------------------------------------
(* The caller *)

Init ==
    /\ calls = <<>>
    /\ \/ \E a \in SocketAddrV4Samples : inputs = <<Given("SocketAddrV4", a)>>
       \/ \E a \in SocketAddrV6Samples : inputs = <<Given("SocketAddrV6", a)>>
       \/ \E b \in CompactV4Samples : inputs = <<Given("[u8; 6]", b)>>
       \/ \E b \in CompactV6Samples : inputs = <<Given("[u8; 18]", b)>>

\* The type each method returns.
RetTy(op) ==
    CASE op = "V4::to_compact_address"   -> "[u8; 6]"
      [] op = "V4::from_compact_address" -> "SocketAddrV4"
      [] op = "V6::to_compact_address"   -> "[u8; 18]"
      [] op = "V6::from_compact_address" -> "SocketAddrV6"

\* The values of type ty the caller holds: its inputs of that type, and the
\* value its previous call returned.
Held(ty) ==
    {inputs[i].val : i \in {j \in DOMAIN inputs : inputs[j].ty = ty}}
        \cup (IF /\ calls # <<>>
                 /\ ~calls[Len(calls)].panicked
                 /\ RetTy(calls[Len(calls)].op) = ty
              THEN {calls[Len(calls)].ret}
              ELSE {})

\* A call that panicked returns nothing: ret repeats the argument and is
\* never read.
Call(op, arg, panicked, ret) ==
    [op |-> op, arg |-> arg, panicked |-> panicked,
     ret |-> IF panicked THEN arg ELSE ret]

V4ToCompact ==
    /\ Len(calls) < MaxCalls
    /\ \E self \in Held("SocketAddrV4") :
          calls' = Append(calls, Call("V4::to_compact_address", self,
                                      V4_to_compact_address_panics(self),
                                      V4_to_compact_address(self)))
    /\ UNCHANGED inputs

V4FromCompact ==
    /\ Len(calls) < MaxCalls
    /\ \E bytes \in Held("[u8; 6]") :
          calls' = Append(calls, Call("V4::from_compact_address", bytes,
                                      V4_from_compact_address_panics(bytes),
                                      V4_from_compact_address(bytes)))
    /\ UNCHANGED inputs

V6ToCompact ==
    /\ Len(calls) < MaxCalls
    /\ \E self \in Held("SocketAddrV6") :
          calls' = Append(calls, Call("V6::to_compact_address", self,
                                      V6_to_compact_address_panics(self),
                                      V6_to_compact_address(self)))
    /\ UNCHANGED inputs

V6FromCompact ==
    /\ Len(calls) < MaxCalls
    /\ \E bytes \in Held("[u8; 18]") :
          calls' = Append(calls, Call("V6::from_compact_address", bytes,
                                      V6_from_compact_address_panics(bytes),
                                      V6_from_compact_address(bytes)))
    /\ UNCHANGED inputs

Next == V4ToCompact \/ V4FromCompact \/ V6ToCompact \/ V6FromCompact

Spec == Init /\ [][Next]_vars

----------------------------------------------------------------------------
(* A caller that is given two socket addresses of the same IP version: an  *)
(* address and either a peer that differs from it in at most one byte of   *)
(* its octets or of its port, and (IPv6) possibly in flowinfo and          *)
(* scope_id, or another address of the samples.                            *)

PairPortSamples == {80, 34000, 65280}

PairV4Samples ==
    {SocketAddrV4_new(IpAddr_from(o), p) :
        o \in {Ramp(4, base) : base \in ByteSamples} \cup {<<192, 168, 1, 2>>},
        p \in PortSamples}

PairV6Samples ==
    {SocketAddrV6_new(IpAddr_from(o), p, fs[1], fs[2]) :
        o \in {Ramp(16, base) : base \in ByteSamples}
                 \cup {OneHot(16, 16, 1, 0)},
        p \in PairPortSamples,
        fs \in {<<0, 0>>, <<1048575, 7>>}}

\* The ports that differ from p in at most one of their two bytes.
PortPeers(p) ==
    {v * 256 + (p % 256) : v \in ByteSamples}
        \cup {(p \div 256) * 256 + v : v \in ByteSamples}

\* The addresses that differ from ip in at most one octet.
IpPeers(ip) ==
    {IpAddr_from([IpAddr_octets(ip) EXCEPT ![i] = v]) :
        i \in DOMAIN IpAddr_octets(ip), v \in ByteSamples}

V4Peers(a) ==
    {SocketAddrV4_new(ip, a.port) : ip \in IpPeers(a.ip)}
        \cup {SocketAddrV4_new(a.ip, p) : p \in PortPeers(a.port)}

V6Peers(a) ==
    {SocketAddrV6_new(ip, a.port, fs[1], fs[2]) :
        ip \in IpPeers(a.ip), fs \in {<<0, 0>>, <<1048575, 7>>}}
        \cup {SocketAddrV6_new(a.ip, p, fs[1], fs[2]) :
                 p \in PortPeers(a.port), fs \in {<<0, 0>>, <<1048575, 7>>}}

InitPair ==
    /\ calls = <<>>
    /\ \/ \E a \in PairV4Samples : \E b \in V4Peers(a) \cup PairV4Samples :
             inputs = <<Given("SocketAddrV4", a), Given("SocketAddrV4", b)>>
       \/ \E a \in PairV6Samples : \E b \in V6Peers(a) \cup PairV6Samples :
             inputs = <<Given("SocketAddrV6", a), Given("SocketAddrV6", b)>>

SpecPair == InitPair /\ [][Next]_vars

----------------------------------------------------------------------------
(* Properties *)

V4To   == "V4::to_compact_address"

V4From == "V4::from_compact_address"

V6To   == "V6::to_compact_address"

V6From == "V6::from_compact_address"

\* Call i + 1 is method g applied to what call i, of method f, returned.
Chain(i, f, g) ==
    /\ i + 1 <= Len(calls)
    /\ calls[i].op = f
    /\ calls[i + 1].op = g
    /\ ~calls[i].panicked
    /\ calls[i + 1].arg = calls[i].ret

\* C1: every V4 to_compact_address returns exactly the 6 bytes
\* [o0, o1, o2, o3, port div 256, port mod 256], and 192.168.1.2:34000
\* encodes to [192, 168, 1, 2, 0x84, 0xD0].
C1_V4Layout ==
    \A i \in DOMAIN calls :
        calls[i].op = V4To =>
            LET o == calls[i].arg.ip.octets
                p == calls[i].arg.port
            IN  /\ ~calls[i].panicked
                /\ Len(calls[i].ret) = 6
                /\ calls[i].ret = <<o[1], o[2], o[3], o[4], p \div 256, p % 256>>
                /\ (o = <<192, 168, 1, 2>> /\ p = 34000
                       => calls[i].ret = <<192, 168, 1, 2, 132, 208>>)

C1_Witness ==
    \E i \in DOMAIN calls :
        /\ calls[i].op = V4To
        /\ calls[i].arg.ip.octets = <<192, 168, 1, 2>>
        /\ calls[i].arg.port = 34000
        /\ calls[i].ret = <<192, 168, 1, 2, 132, 208>>

\* C2: every V6 to_compact_address returns exactly the 18 bytes
\* [o0, ..., o15, port div 256, port mod 256], and [::1]:80 encodes to
\* fifteen 0 bytes, then 1, then 0x00, 0x50.
C2_V6Layout ==
    \A i \in DOMAIN calls :
        calls[i].op = V6To =>
            LET o == calls[i].arg.ip.octets
                p == calls[i].arg.port
            IN  /\ ~calls[i].panicked
                /\ Len(calls[i].ret) = 18
                /\ \A k \in 1..16 : calls[i].ret[k] = o[k]
                /\ calls[i].ret[17] = p \div 256
                /\ calls[i].ret[18] = p % 256
                /\ (o = <<0, 0, 0, 0, 0, 0, 0, 0, 0, 0, 0, 0, 0, 0, 0, 1>> /\ p = 80
                       => calls[i].ret =
                             <<0, 0, 0, 0, 0, 0, 0, 0, 0, 0, 0, 0, 0, 0, 0, 1, 0, 80>>)

C2_Witness ==
    \E i \in DOMAIN calls :
        /\ calls[i].op = V6To
        /\ calls[i].arg.ip.octets = <<0, 0, 0, 0, 0, 0, 0, 0, 0, 0, 0, 0, 0, 0, 0, 1>>
        /\ calls[i].arg.port = 80
        /\ calls[i].ret = <<0, 0, 0, 0, 0, 0, 0, 0, 0, 0, 0, 0, 0, 0, 0, 1, 0, 80>>

\* C3: IPv4 round trip: decoding the encoding of a SocketAddrV4 gives that
\* SocketAddrV4 back.
C3_V4RoundTrip ==
    \A i \in DOMAIN calls :
        Chain(i, V4To, V4From) =>
            /\ ~calls[i + 1].panicked
            /\ calls[i + 1].ret = calls[i].arg

C3_Witness ==
    \E i \in DOMAIN calls :
        /\ Chain(i, V4To, V4From)
        /\ calls[i].arg.ip.octets = <<192, 168, 1, 2>>
        /\ calls[i].arg.port = 34000
        /\ calls[i + 1].ret = calls[i].arg

\* C4: IPv6 round trip: decoding the encoding of a SocketAddrV6 with
\* flowinfo 0 and scope_id 0 gives that SocketAddrV6 back.
C4_V6RoundTrip ==
    \A i \in DOMAIN calls :
        /\ Chain(i, V6To, V6From)
        /\ calls[i].arg.flowinfo = 0
        /\ calls[i].arg.scope_id = 0
        => /\ ~calls[i + 1].panicked
           /\ calls[i + 1].ret = calls[i].arg

C4_Witness ==
    \E i \in DOMAIN calls :
        /\ Chain(i, V6To, V6From)
        /\ calls[i].arg.flowinfo = 0
        /\ calls[i].arg.scope_id = 0
        /\ calls[i].arg.ip.octets = Ramp(16, 255)
        /\ calls[i].arg.port = 34000
        /\ calls[i + 1].ret = calls[i].arg

\* C5: every from_compact_address (IPv4 on 6 bytes, IPv6 on 18 bytes)
\* returns a socket address without panicking, and encoding what it returned
\* gives the original bytes back.
C5_BytesRoundTrip ==
    \A i \in DOMAIN calls :
        /\ calls[i].op = V4From =>
              ~calls[i].panicked /\ IsSocketAddrV4(calls[i].ret)
        /\ calls[i].op = V6From =>
              ~calls[i].panicked /\ IsSocketAddrV6(calls[i].ret)
        /\ Chain(i, V4From, V4To) =>
              ~calls[i + 1].panicked /\ calls[i + 1].ret = calls[i].arg
        /\ Chain(i, V6From, V6To) =>
              ~calls[i + 1].panicked /\ calls[i + 1].ret = calls[i].arg

C5_Witness ==
    \E i \in DOMAIN calls :
        /\ Chain(i, V6From, V6To)
        /\ calls[i].arg = Ramp(18, 255)
        /\ calls[i + 1].ret = calls[i].arg

\* The IPv4 case of C5 happens as well.
C5_WitnessV4 ==
    \E i \in DOMAIN calls :
        /\ Chain(i, V4From, V4To)
        /\ calls[i].arg = <<192, 168, 1, 2, 132, 208>>
        /\ calls[i + 1].ret = calls[i].arg

\* C6: the encoding of a SocketAddrV6 does not depend on its flowinfo and
\* scope_id (two addresses with the same octets and port encode to the same
\* bytes), and decoding it gives the same octets and port with flowinfo 0
\* and scope_id 0.
C6_ScopeFlowDiscard ==
    /\ \A i, j \in DOMAIN calls :
          /\ calls[i].op = V6To
          /\ calls[j].op = V6To
          /\ calls[i].arg.ip = calls[j].arg.ip
          /\ calls[i].arg.port = calls[j].arg.port
          => /\ ~calls[i].panicked
             /\ ~calls[j].panicked
             /\ calls[i].ret = calls[j].ret
    /\ \A i \in DOMAIN calls :
          Chain(i, V6To, V6From) =>
              /\ ~calls[i + 1].panicked
              /\ calls[i + 1].ret.ip = calls[i].arg.ip
              /\ calls[i + 1].ret.port = calls[i].arg.port
              /\ calls[i + 1].ret.flowinfo = 0
              /\ calls[i + 1].ret.scope_id = 0

C6_Witness ==
    \E i \in DOMAIN calls :
        /\ Chain(i, V6To, V6From)
        /\ calls[i].arg.flowinfo # 0
        /\ calls[i].arg.scope_id # 0
        /\ calls[i].arg.port # 0
        /\ calls[i + 1].ret.flowinfo = 0
        /\ calls[i + 1].ret.scope_id = 0

\* Two addresses that differ only in flowinfo and scope_id are both encoded.
C6_WitnessPair ==
    \E i, j \in DOMAIN calls :
        /\ calls[i].op = V6To
        /\ calls[j].op = V6To
        /\ calls[i].arg.ip = calls[j].arg.ip
        /\ calls[i].arg.port = calls[j].arg.port
        /\ calls[i].arg.flowinfo = 0
        /\ calls[j].arg.flowinfo # 0
        /\ calls[j].arg.scope_id # 0
        /\ calls[i].ret = calls[j].ret

\* C7: two socket addresses of the same IP version that differ in their
\* octets or in their port encode to different bytes, whatever the flowinfo
\* and scope_id of either.
C7_Injective ==
    \A i, j \in DOMAIN calls :
        /\ \/ calls[i].op = V4To /\ calls[j].op = V4To
           \/ calls[i].op = V6To /\ calls[j].op = V6To
        /\ \/ calls[i].arg.ip # calls[j].arg.ip
           \/ calls[i].arg.port # calls[j].arg.port
        => /\ ~calls[i].panicked
           /\ ~calls[j].panicked
           /\ calls[i].ret # calls[j].ret

C7_Witness ==
    \E i, j \in DOMAIN calls :
        /\ calls[i].op = V4To
        /\ calls[j].op = V4To
        /\ calls[i].arg.ip.octets = <<192, 168, 1, 2>>
        /\ calls[j].arg.ip.octets = <<192, 168, 1, 255>>
        /\ calls[i].arg.port = calls[j].arg.port
        /\ calls[i].ret # calls[j].ret

\* The IPv6 case of C7 happens as well, with different flowinfo and scope_id.
C7_WitnessV6 ==
    \E i, j \in DOMAIN calls :
        /\ calls[i].op = V6To
        /\ calls[j].op = V6To
        /\ calls[i].arg.ip = calls[j].arg.ip
        /\ calls[i].arg.port # calls[j].arg.port
        /\ calls[i].arg.flowinfo # calls[j].arg.flowinfo
        /\ calls[i].ret # calls[j].ret

\* C8: every V4 from_compact_address(b) returns, without panicking, the
\* address with octets b[0], b[1], b[2], b[3] and port 256 * b[4] + b[5],
\* which is within 0..65535.
C8_V4Decode ==
    \A i \in DOMAIN calls :
        calls[i].op = V4From =>
            LET b == calls[i].arg
            IN  /\ ~calls[i].panicked
                /\ calls[i].ret.ip.octets = <<b[1], b[2], b[3], b[4]>>
                /\ calls[i].ret.port = 256 * b[5] + b[6]
                /\ calls[i].ret.port \in U16

C8_Witness ==
    \E i \in DOMAIN calls :
        /\ calls[i].op = V4From
        /\ calls[i].arg = <<192, 168, 1, 2, 132, 208>>
        /\ calls[i].ret.ip.octets = <<192, 168, 1, 2>>
        /\ calls[i].ret.port = 34000

\* C9: every V6 from_compact_address(b) returns the address with octets
\* b[0..15], port 256 * b[16] + b[17], flowinfo 0 and scope_id 0.
C9_V6Decode ==
    \A i \in DOMAIN calls :
        calls[i].op = V6From =>
            LET b == calls[i].arg
            IN  /\ ~calls[i].panicked
                /\ Len(calls[i].ret.ip.octets) = 16
                /\ \A k \in 1..16 : calls[i].ret.ip.octets[k] = b[k]
                /\ calls[i].ret.port = 256 * b[17] + b[18]
                /\ calls[i].ret.flowinfo = 0
                /\ calls[i].ret.scope_id = 0

C9_Witness ==
    \E i \in DOMAIN calls :
        /\ calls[i].op = V6From
        /\ calls[i].arg = Ramp(18, 255)
        /\ calls[i].ret.ip.octets = Ramp(16, 255)
        /\ calls[i].ret.port = 15 * 256 + 16
        /\ calls[i].ret.flowinfo = 0

====
